---- MODULE Spec2Model ----
(***************************************************************************)
(* Model of the useEmailValidation hook of @truelist/react                 *)
(* (src/src/use-email-validation.ts) together with the verifyEmail client  *)
(* (src/src/client.ts) it calls.                                           *)
(*                                                                         *)
(* Every handler of the hook (validate, the debounced run, the then/catch  *)
(* reactions of a request, reset, the unmount cleanup) is one action.      *)
(* JavaScript runs each of them to completion on one thread, so an action  *)
(* is atomic.  The browser is the environment: it holds the scheduled      *)
(* timeouts and the pending fetch calls and decides how each call settles. *)
(***************************************************************************)
EXTENDS Integers, Sequences, FiniteSets, TLC

\* ------------------------------------------------------------------ bounds
\* Number of validate calls with a well-shaped email in one behaviour.
MaxTriggers == 2

\* ------------------------------------------------------ program constants
\* Default debounce delay of the hook.
DefaultDebounceMs == 500

\* The debounce delays the hook is mounted with: disabled, and the default.
DebounceChoices == {0, DefaultDebounceMs}

\* Emails are sequences of characters.
Emails ==
  { <<>>, <<"n", "o">>, <<"a", "@", "x">>, <<"b", "@", "x">> }

\* nullable values: null is the empty sequence, a value v is <<v>>
Null == <<>>
Some(v) == <<v>>

\* Bodies the API answers an accepted request with (ApiResponse); the email
\* is the one that was posted.
ApiResponse(email) ==
  { [state |-> "invalid", sub_state |-> "failed_no_mailbox", email |-> email] }

\* Non-OK statuses the API answers with, and their status texts.
ErrorStatuses == {429, 500}

StatusText(status) ==
  CASE status = 429 -> "Too Many Requests"
    [] status = 401 -> "Unauthorized"
    [] OTHER -> "Internal Server Error"

\* What fetch can do with a call: answer 200 with a body, answer with a
\* non-OK status, fail with a network TypeError, or, once the signal of the
\* call is aborted, reject with the AbortError DOMException.  A verifier
\* that does not honour the signal may still answer after the abort.
NoBody == [state |-> "-", sub_state |-> "-", email |-> <<>>]

FetchOutcomes(email, aborted) ==
  { [kind |-> "response", status |-> 200, data |-> d, name |-> "-"] :
      d \in ApiResponse(email) }
  \cup
  { [kind |-> "response", status |-> s, data |-> NoBody, name |-> "-"] :
      s \in ErrorStatuses }
  \cup
  { [kind |-> "throw", status |-> 0, data |-> NoBody, name |-> "TypeError"] }
  \cup
  ( IF aborted
      THEN { [kind |-> "throw", status |-> 0, data |-> NoBody, name |-> "AbortError"] }
      ELSE {} )

\* ---------------------------------------------------------------- client
NoValue == [state |-> "-", subState |-> "-", email |-> <<>>]
NoErr == [name |-> "-", message |-> <<>>, status |-> 0]

\* new TruelistApiError(message, status)
TruelistApiError(message, status) ==
  [name |-> "TruelistApiError", message |-> message, status |-> status]

\* a client that reports a 401 with the message of the 429
verifyEmail_AuthAsRateLimit(out) ==
  IF out.kind = "throw"
    THEN [tag |-> "reject", value |-> NoValue,
          err |-> [name |-> out.name, message |-> <<"fetch failed">>, status |-> 0]]
  ELSE IF out.status # 200
    THEN [tag |-> "reject", value |-> NoValue,
          err |-> IF out.status = 429 \/ out.status = 401
                    THEN TruelistApiError(
                           <<"Rate limit exceeded. The form API allows 60 requests per minute.">>,
                           out.status)
                  ELSE TruelistApiError(
                           <<"Truelist API error: ", out.status, StatusText(out.status)>>,
                           out.status)]
  ELSE [tag |-> "resolve",
        value |-> [state |-> out.data.state,
                   subState |-> out.data.sub_state,
                   email |-> out.data.email],
        err |-> NoErr]

\* verifyEmail: the settlement of its promise for an outcome of fetch.
verifyEmail(out) ==
  IF out.kind = "throw"
    THEN [tag |-> "reject", value |-> NoValue,
          err |-> [name |-> out.name, message |-> <<"fetch failed">>, status |-> 0]]
  ELSE IF out.status # 200
    THEN [tag |-> "reject", value |-> NoValue,
          err |-> IF out.status = 429
                    THEN TruelistApiError(
                           <<"Rate limit exceeded. The form API allows 60 requests per minute.">>, 429)
                  ELSE IF out.status = 401
                    THEN TruelistApiError(
                           <<"Invalid API key. Check your Truelist form API key.">>, 401)
                  ELSE TruelistApiError(
                           <<"Truelist API error: ", out.status, StatusText(out.status)>>,
                           out.status)]
  ELSE [tag |-> "resolve",
        value |-> [state |-> out.data.state,
                   subState |-> out.data.sub_state,
                   email |-> out.data.email],
        err |-> NoErr]

\* ------------------------------------------------------------------ state
VARIABLES
  result,              \* useState: ValidationResult | null
  isValidating,        \* useState: boolean
  error,               \* useState: string | null
  abortControllerRef,  \* useRef: 0 (null) or the request whose controller it holds
  debounceTimerRef,    \* useRef: 0 (null) or the id setTimeout returned
  debounceMs,          \* option
  timers,              \* environment: the timeouts scheduled and not yet fired or cleared
  requests,            \* environment: the verifyEmail calls made, in order of issue
  onResultCalls,       \* the invocations of options.onResult, in order
  onErrorCalls,        \* the invocations of options.onError, in order
  triggers,            \* the emails of the validate calls that passed the shape test
  unmounted,           \* the unmount cleanup has run
  \* history, read by the properties only
  ev,                  \* the handler that ran last
  clearedUpTo,         \* the number of requests issued when validate last got an incomplete email
  resetUpTo,           \* the number of requests issued when reset was last called
  \* the form adapters (zod.ts, react-hook-form.ts)
  adapter,             \* the call of an adapter's validation function and what it returned
  \* the API client called on its own (client.ts)
  client               \* two verifyEmail calls, how each settled and what the catch handler shows

hookVars == <<result, isValidating, error, abortControllerRef, debounceTimerRef>>
envVars == <<debounceMs, timers, requests, onResultCalls, onErrorCalls, triggers, unmounted>>
histVars == <<ev, clearedUpTo, resetUpTo>>
vars == <<hookVars, envVars, histVars, adapter, client>>

\* what a consumer of the hook observes
obsVars == <<result, isValidating, error, onResultCalls, onErrorCalls>>

Event(op, req, kind, email) == [op |-> op, req |-> req, kind |-> kind, email |-> email]

\* the requests whose promise has not settled
Pending == { r \in DOMAIN requests : requests[r].outcome = "pending" }

\* the state of the hook after construction
HookInit ==
  /\ result = Null
  /\ isValidating = FALSE
  /\ error = Null
  /\ abortControllerRef = 0
  /\ debounceTimerRef = 0
  /\ debounceMs \in DebounceChoices
  /\ timers = {}
  /\ requests = <<>>
  /\ onResultCalls = <<>>
  /\ onErrorCalls = <<>>
  /\ triggers = <<>>
  /\ unmounted = FALSE
  /\ ev = Event("mount", 0, "-", <<>>)
  /\ clearedUpTo = 0
  /\ resetUpTo = 0

\* ---------------------------------------------------------------- helpers
\* email.includes("@")
includes(email, ch) == \E i \in DOMAIN email : email[i] = ch

\* the shape test without its second half
Incomplete_EmptyOnly(email) == Len(email) = 0

\* !email || !email.includes("@")
Incomplete(email) == Len(email) = 0 \/ ~includes(email, "@")

\* a clearTimeout that clears nothing
clearTimeout_Noop(ts, id) == ts

\* clearTimeout(id): the timeouts left scheduled
clearTimeout(ts, id) == { t \in ts : t.id # id }

\* controller.abort() on request r
abort(reqs, r) == [reqs EXCEPT ![r].aborted = TRUE]

\* the handle of the request in flight dropped without aborting it
AbortCurrent_Never(reqs, ref) == reqs

\* if (abortControllerRef.current) abortControllerRef.current.abort()
AbortCurrent(reqs, ref) == IF ref # 0 THEN abort(reqs, ref) ELSE reqs

\* the pending timeout left scheduled
ClearPending_Keeps(ts, ref) == ts

\* if (debounceTimerRef.current) clearTimeout(debounceTimerRef.current)
ClearPending(ts, ref) == IF ref # 0 THEN clearTimeout(ts, ref) ELSE ts

\* ------------------------------------------------------------- adapters
\* ValidationState
ValidationStates == {"ok", "email_invalid", "risky", "accept_all", "unknown"}

\* rejectStates = ["invalid"]
DefaultRejectStates == {"invalid"}

\* the reject sets an adapter is configured with: the default, and any set of states
RejectSets == {DefaultRejectStates} \cup SUBSET ValidationStates

\* message = "This email address is not valid."
DefaultMessage == <<"This email address is not valid.">>

\* Non-OK statuses the API answers an adapter with.
AdapterStatuses == {401, 429, 500}

\* What fetch can do with the call of an adapter, which passes no signal.
AdapterFetchOutcomes(email) ==
  { [kind |-> "response", status |-> 200,
     data |-> [state |-> st,
               sub_state |-> IF st = "ok" THEN "email_ok" ELSE "failed_no_mailbox",
               email |-> email],
     name |-> "-"] : st \in ValidationStates }
  \cup
  { [kind |-> "response", status |-> s, data |-> NoBody, name |-> "-"] :
      s \in AdapterStatuses }
  \cup
  { [kind |-> "throw", status |-> 0, data |-> NoBody, name |-> "TypeError"] }

\* what a validation function does: return a verdict, or throw
Returns(ok, message) == [kind |-> "return", ok |-> ok, message |-> message]
Throws(err) == [kind |-> "throw", ok |-> FALSE, message |-> err.message]
NotReturned == [kind |-> "none", ok |-> FALSE, message |-> <<>>]

\* a refinement that lost the negation of its test
truelistEmail_Inverted(email, out, rejectStates) ==
  LET p == verifyEmail(out)
  IN IF p.tag = "resolve"
       THEN Returns(p.value.state \in rejectStates, <<>>)
       ELSE Returns(TRUE, <<>>)

\* the refinement of truelistEmail: try { return !rejectStates.includes(state) }
\* catch { return true }
truelistEmail(email, out, rejectStates) ==
  LET p == verifyEmail(out)
  IN IF p.tag = "resolve"
       THEN Returns(p.value.state \notin rejectStates, <<>>)
       ELSE Returns(TRUE, <<>>)

\* a field validator that blocks the form when the API fails
truelistFieldValidator_FailClosed(value, out, rejectStates, message) ==
  IF Len(value) = 0 \/ ~includes(value, "@")
    THEN Returns(TRUE, <<>>)
    ELSE LET p == verifyEmail(out)
         IN IF p.tag = "resolve"
              THEN IF p.value.state \in rejectStates
                     THEN Returns(FALSE, message)
                     ELSE Returns(TRUE, <<>>)
              ELSE Returns(FALSE, message)

\* the function truelistFieldValidator returns
truelistFieldValidator(value, out, rejectStates, message) ==
  IF Len(value) = 0 \/ ~includes(value, "@")
    THEN Returns(TRUE, <<>>)
    ELSE LET p == verifyEmail(out)
         IN IF p.tag = "resolve"
              THEN IF p.value.state \in rejectStates
                     THEN Returns(FALSE, message)
                     ELSE Returns(TRUE, <<>>)
              ELSE Returns(TRUE, <<>>)

\* no adapter is in use
NoCall ==
  [phase |-> "none", kind |-> "-", email |-> <<>>,
   out |-> [kind |-> "-", status |-> 0, data |-> NoBody, name |-> "-"],
   rejectStates |-> {}, ret |-> NotReturned]

\* the calls of the adapters' validation functions
AdapterCalls ==
  { [phase |-> "called", kind |-> k, email |-> e, out |-> o,
     rejectStates |-> rs, ret |-> NotReturned] :
      k \in {"zod", "rhf"}, e \in Emails, o \in UNION { AdapterFetchOutcomes(e2) : e2 \in Emails },
      rs \in RejectSets }

\* --------------------------------------------------------- client calls
\* What fetch can do with a call of the client that passes a signal.
ClientFetchOutcomes(email) ==
  AdapterFetchOutcomes(email)
  \cup { [kind |-> "throw", status |-> 0, data |-> NoBody, name |-> "AbortError"] }

\* a promise that has not settled
NotSettled == [tag |-> "-", value |-> NoValue, err |-> NoErr]

\* the client is not called on its own
NoClientCall ==
  [phase |-> "none", outs |-> <<>>, settled |-> <<>>, shown |-> <<>>]

\* two calls of verifyEmail, each with an outcome of fetch
ClientCalls ==
  { [phase |-> "called", outs |-> <<o1, o2>>,
     settled |-> <<NotSettled, NotSettled>>, shown |-> <<Null, Null>>] :
      o1 \in ClientFetchOutcomes(<<"a", "@", "x">>),
      o2 \in ClientFetchOutcomes(<<"a", "@", "x">>) }

\* the state after construction: the hook mounted, no adapter in use
Init ==
  /\ HookInit
  /\ adapter = NoCall
  /\ client = NoClientCall

\* a debounce that also delays when the delay is 0
Debounced_Always(ms) == ms >= 0

\* a hook that never delays
Debounced_Never(ms) == FALSE

\* if (debounceMs > 0)
Debounced(ms) == ms > 0

\* run() that keeps one controller for every request
Run_ReusesController(email, trig) ==
  /\ requests' = Append(AbortCurrent(requests, abortControllerRef),
                        [email |-> email, trig |-> trig,
                         aborted |-> (abortControllerRef # 0),
                         outcome |-> "pending"])
  /\ abortControllerRef' = Len(requests) + 1
  /\ isValidating' = TRUE
  /\ error' = Null
  /\ UNCHANGED <<result, onResultCalls, onErrorCalls>>

\* run(): abort the request in flight, open a new one and make it current
Run(email, trig) ==
  /\ requests' = Append(AbortCurrent(requests, abortControllerRef),
                        [email |-> email, trig |-> trig,
                         aborted |-> FALSE, outcome |-> "pending"])
  /\ abortControllerRef' = Len(requests) + 1
  /\ isValidating' = TRUE
  /\ error' = Null
  /\ UNCHANGED <<result, onResultCalls, onErrorCalls>>

\* ---------------------------------------------------------------- actions
\* validate(email), called by the mounted component
Validate(email) ==
  /\ ~unmounted
  /\ Incomplete(email) \/ Len(triggers) < MaxTriggers
  /\ UNCHANGED <<debounceMs, unmounted, resetUpTo, adapter, client>>
  /\ IF Incomplete(email)
       THEN /\ timers' = ClearPending(timers, debounceTimerRef)
            /\ debounceTimerRef' = 0
            /\ result' = Null
            /\ error' = Null
            /\ isValidating' = FALSE
            /\ clearedUpTo' = Len(requests)
            /\ ev' = Event("validate", 0, "incomplete", email)
            /\ UNCHANGED <<abortControllerRef, requests, onResultCalls, onErrorCalls,
                           triggers>>
       ELSE /\ triggers' = Append(triggers, email)
            /\ UNCHANGED clearedUpTo
            /\ IF Debounced(debounceMs)
                 THEN /\ timers' = ClearPending(timers, debounceTimerRef)
                                     \cup { [id |-> Len(triggers) + 1, email |-> email] }
                      /\ debounceTimerRef' = Len(triggers) + 1
                      /\ ev' = Event("validate", 0, "debounced", email)
                      /\ UNCHANGED <<result, isValidating, error, abortControllerRef,
                                     requests, onResultCalls, onErrorCalls>>
                 ELSE /\ timers' = ClearPending(timers, debounceTimerRef)
                      /\ debounceTimerRef' = 0
                      /\ ev' = Event("validate", Len(requests) + 1, "immediate", email)
                      /\ Run(email, Len(triggers) + 1)

\* setInterval in place of setTimeout: the timer stays scheduled after it fired
TimerFires_Interval(t) ==
  /\ t \in timers
  /\ timers' = timers
  /\ Run(t.email, t.id)
  /\ ev' = Event("timer", Len(requests) + 1, "-", <<>>)
  /\ UNCHANGED <<debounceTimerRef, debounceMs, triggers, unmounted, clearedUpTo, resetUpTo,
                 adapter, client>>

\* the timeout t fires: setTimeout(run, debounceMs)
TimerFires(t) ==
  /\ t \in timers
  /\ timers' = timers \ {t}
  /\ Run(t.email, t.id)
  /\ ev' = Event("timer", Len(requests) + 1, "-", <<>>)
  /\ UNCHANGED <<debounceTimerRef, debounceMs, triggers, unmounted, clearedUpTo, resetUpTo,
                 adapter, client>>

\* the then handler without its test of the signal
ThenIgnores_Never(req) == FALSE

\* the then handler with its test of the signal inverted
ThenIgnores_Inverted(req) == ~req.aborted

\* then handler: if (controller.signal.aborted) return
ThenIgnores(req) == req.aborted

\* the catch handler without its test of the AbortError
CatchIgnores_Never(err) == FALSE

\* a catch handler that returns on every failure
CatchIgnores_Always(err) == TRUE

\* catch handler: if (err instanceof DOMException && err.name === "AbortError") return
CatchIgnores(err) == err.name = "AbortError"

\* catch handler: the message it records
FallbackMessage == <<"Email validation failed. Please try again.">>

\* the catch handler recording the fallback for every failure
ErrorMessage_AlwaysFallback(err) == FallbackMessage

ErrorMessage(err) ==
  IF err.name = "TruelistApiError" THEN err.message ELSE FallbackMessage

\* .then(...).catch(...) of run on a settled verifyEmail promise: the error
\* message the catch handler shows, null when it shows none
Surfaced(p) ==
  IF p.tag = "reject" /\ ~CatchIgnores(p.err) THEN Some(ErrorMessage(p.err)) ELSE Null

\* what the consumer's onResult callback raises when it throws
CallbackError == [name |-> "Error", message |-> <<"onResult threw">>, status |-> 0]

\* the verifyEmail call of request r settles with fetch outcome out, and the
\* then/catch chain of run reacts; throws: the consumer's onResult throws
Settles(r, out, throws) ==
  /\ r \in Pending
  /\ out \in FetchOutcomes(requests[r].email, requests[r].aborted)
  /\ LET req == requests[r]
         p == verifyEmail(out)
         applied == p.tag = "resolve" /\ ~ThenIgnores(req)
         failed == p.tag = "reject" \/ (applied /\ throws)
         err == IF p.tag = "reject" THEN p.err ELSE CallbackError
         reported == failed /\ ~CatchIgnores(err)
     IN /\ throws => applied
        /\ requests' = [requests EXCEPT
                          ![r].outcome = IF p.tag = "resolve" THEN "resolved" ELSE p.err.name]
        /\ result' = IF applied THEN Some(p.value) ELSE result
        /\ onResultCalls' = IF applied
                              THEN Append(onResultCalls, [req |-> r, arg |-> p.value])
                              ELSE onResultCalls
        /\ error' = IF reported THEN Some(ErrorMessage(err)) ELSE error
        /\ onErrorCalls' = IF reported
                             THEN Append(onErrorCalls, [req |-> r, arg |-> ErrorMessage(err)])
                             ELSE onErrorCalls
        /\ isValidating' = IF applied \/ reported THEN FALSE ELSE isValidating
        /\ ev' = Event("settle", r, IF p.tag = "resolve" THEN "resolved" ELSE p.err.name, <<>>)
  /\ UNCHANGED <<abortControllerRef, debounceTimerRef, debounceMs, timers, triggers,
                 unmounted, clearedUpTo, resetUpTo, adapter, client>>

\* reset() that aborts the request but keeps its handle, as the cleanup does
Reset_KeepsHandle ==
  /\ ~unmounted
  /\ timers' = ClearPending(timers, debounceTimerRef)
  /\ debounceTimerRef' = 0
  /\ requests' = AbortCurrent(requests, abortControllerRef)
  /\ abortControllerRef' = abortControllerRef
  /\ result' = Null
  /\ error' = Null
  /\ isValidating' = FALSE
  /\ resetUpTo' = Len(requests)
  /\ ev' = Event("reset", 0, IF ev.op = "reset" THEN "again" ELSE "first", <<>>)
  /\ UNCHANGED <<debounceMs, onResultCalls, onErrorCalls, triggers, unmounted, clearedUpTo,
                 adapter, client>>

\* reset(), called by the mounted component
Reset ==
  /\ ~unmounted
  /\ timers' = ClearPending(timers, debounceTimerRef)
  /\ debounceTimerRef' = 0
  /\ requests' = AbortCurrent(requests, abortControllerRef)
  /\ abortControllerRef' = 0
  /\ result' = Null
  /\ error' = Null
  /\ isValidating' = FALSE
  /\ resetUpTo' = Len(requests)
  /\ ev' = Event("reset", 0, IF ev.op = "reset" THEN "again" ELSE "first", <<>>)
  /\ UNCHANGED <<debounceMs, onResultCalls, onErrorCalls, triggers, unmounted, clearedUpTo,
                 adapter, client>>

\* a cleanup that aborts the request and forgets the timer
Unmount_KeepsTimer ==
  /\ ~unmounted
  /\ unmounted' = TRUE
  /\ timers' = timers
  /\ requests' = AbortCurrent(requests, abortControllerRef)
  /\ ev' = Event("unmount", 0, "-", <<>>)
  /\ UNCHANGED <<hookVars, debounceMs, onResultCalls, onErrorCalls, triggers,
                 clearedUpTo, resetUpTo, adapter, client>>

\* the cleanup of the unmount effect
Unmount ==
  /\ ~unmounted
  /\ unmounted' = TRUE
  /\ timers' = ClearPending(timers, debounceTimerRef)
  /\ requests' = AbortCurrent(requests, abortControllerRef)
  /\ ev' = Event("unmount", 0, "-", <<>>)
  /\ UNCHANGED <<hookVars, debounceMs, onResultCalls, onErrorCalls, triggers,
                 clearedUpTo, resetUpTo, adapter, client>>

Next ==
  \/ \E email \in Emails : Validate(email)
  \/ \E t \in timers : TimerFires(t)
  \/ \E r \in DOMAIN requests :
       \E out \in FetchOutcomes(requests[r].email, requests[r].aborted) :
         \E throws \in BOOLEAN : Settles(r, out, throws)
  \/ Reset
  \/ Unmount

Spec == Init /\ [][Next]_vars


\* ------------------------------------------------------------- properties
\* the email has no "@" (the empty email included)
HasNoAt(email) == \A i \in DOMAIN email : email[i] # "@"

\* the non-cancellation failures of a request
FailureNames == {"TruelistApiError", "TypeError"}

\* C1: last-trigger-wins from the moment of the trigger.  Once validate has
\* been called with a well-shaped email while a request is in flight, the
\* settlement of that request, success or failure, writes neither result nor
\* error and calls neither onResult nor onError, also while the timer of the
\* new trigger is still pending.  (A request that settles while a trigger
\* newer than its own exists was in flight when that trigger was made.)
C1_LastTriggerWinsFromTrigger ==
  [][ (ev'.op = "settle" /\ requests[ev'.req].trig < Len(triggers))
        => UNCHANGED <<result, error, onResultCalls, onErrorCalls>> ]_vars

\* C2: once a newer request has been issued, an older request that resolves
\* is a no-op: result, isValidating and the onResult calls stay as they are;
\* only the most recently issued request's success is ever applied.
C2_SupersededSuccessIsNoOp ==
  [][ /\ (ev'.op = "settle" /\ ev'.kind = "resolved" /\ ev'.req < Len(requests))
           => UNCHANGED <<result, isValidating, onResultCalls>>
      /\ (onResultCalls' # onResultCalls \/ result' \notin {result, Null})
           => (ev'.op = "settle" /\ ev'.req = Len(requests)) ]_vars

\* C2 witness: a request resolved after a newer one had been issued
C2_Witness ==
  /\ ev.op = "settle"
  /\ ev.kind = "resolved"
  /\ ev.req < Len(requests)
  /\ requests[ev.req].aborted

\* C3: a superseded request that fails with a non-cancellation failure after
\* a newer request was issued does not populate error, does not call onError
\* and does not clear isValidating while the newer request is in flight.
C3_SupersededFailureIsNoOp ==
  [][ (ev'.op = "settle" /\ ev'.kind \in FailureNames /\ ev'.req < Len(requests))
        => /\ error' = error
           /\ onErrorCalls' = onErrorCalls
           /\ (Len(requests) \in Pending => isValidating' = isValidating) ]_vars

\* C4: debounce coalescing.  With debounceMs > 0 the only timer that can be
\* pending is the one of the last trigger, so the delayed execution of an
\* earlier trigger of the burst never fires; every step that issues a
\* request issues exactly one, for the last trigger and with its email, and
\* no trigger has two requests.
C4_DebounceCoalescing ==
  /\ [](debounceMs > 0 =>
          \A t \in timers : t.id = Len(triggers) /\ t.email = triggers[t.id])
  /\ [](\A r1, r2 \in DOMAIN requests :
          requests[r1].trig = requests[r2].trig => r1 = r2)
  /\ [][ Len(requests') # Len(requests)
           => /\ Len(requests') = Len(requests) + 1
              /\ requests'[Len(requests')].trig = Len(triggers')
              /\ requests'[Len(requests')].email = triggers'[Len(triggers')] ]_vars

\* C4 witness: a then b inside the debounce window, b's timer fired and
\* issued the only request, for b
C4_Witness ==
  /\ debounceMs > 0
  /\ ev.op = "timer"
  /\ Len(triggers) = 2
  /\ triggers[1] # triggers[2]
  /\ Len(requests) = 1
  /\ requests[1].trig = 2
  /\ requests[1].email = triggers[2]

\* C5: validate with an empty or "@"-less string sets result = null,
\* error = null and isValidating = false, issues no request and leaves no
\* timer pending, whatever the state before the call.
C5_IncompleteInputClears ==
  [][ (ev'.op = "validate" /\ HasNoAt(ev'.email))
        => /\ result' = Null
           /\ error' = Null
           /\ isValidating' = FALSE
           /\ Len(requests') = Len(requests)
           /\ timers' = {} ]_vars

\* C5 witness: validate("no") was called while a result was shown, or a
\* request was in flight, or a timer was to fire
C5_Witness ==
  /\ ev.op = "validate"
  /\ ev.email = <<"n", "o">>
  /\ Len(requests) >= 1
  /\ Len(triggers) > Len(requests)
  /\ result = Null
  /\ timers = {}

\* C6: validate with an empty or "@"-less string while a request is in
\* flight cancels the request: its later settlement writes neither result
\* nor error and calls neither onResult nor onError.
C6_IncompleteInputCancels ==
  [][ (ev'.op = "settle" /\ ev'.req <= clearedUpTo)
        => UNCHANGED <<result, error, isValidating, onResultCalls, onErrorCalls>> ]_vars

\* C7: reset() leaves result = null, error = null, isValidating = false,
\* and the settlement of a request that was in flight at the reset calls
\* neither onResult nor onError and changes none of the three.
C7_ResetSilencesInFlight ==
  [][ /\ ev'.op = "reset"
           => (result' = Null /\ error' = Null /\ isValidating' = FALSE)
      /\ (ev'.op = "settle" /\ ev'.req <= resetUpTo)
           => UNCHANGED <<result, error, isValidating, onResultCalls, onErrorCalls>> ]_vars

\* C8: reset() yields the Idle state from any state (nothing shown, no timer
\* pending, no request handle, the previous request aborted), and a reset()
\* that follows a reset() changes nothing.
C8_ResetIdempotent ==
  [][ ev'.op = "reset"
        => /\ result' = Null
           /\ error' = Null
           /\ isValidating' = FALSE
           /\ timers' = {}
           /\ debounceTimerRef' = 0
           /\ abortControllerRef' = 0
           /\ abortControllerRef # 0 => requests'[abortControllerRef].aborted
           /\ ev.op = "reset" => UNCHANGED <<hookVars, envVars>> ]_vars

\* C8 witness: reset() was called twice in a row with a request in flight
C8_Witness ==
  /\ ev.op = "reset"
  /\ ev.kind = "again"
  /\ \E r \in Pending : requests[r].aborted

\* C9: after the unmount cleanup no timer is pending, so the execution of a
\* trigger whose timer was pending never runs: no timer fires and no request
\* is issued after the cleanup.
C9_UnmountClearsTimer ==
  /\ [](unmounted => timers = {})
  /\ [][ unmounted => (ev'.op # "timer" /\ Len(requests') = Len(requests)) ]_vars

\* C9 witness: the cleanup ran while the timer of the last trigger was
\* pending (its handle is still held and no request was issued for it)
C9_Witness ==
  /\ unmounted
  /\ debounceTimerRef # 0
  /\ debounceTimerRef = Len(triggers)
  /\ \A r \in DOMAIN requests : requests[r].trig # debounceTimerRef

\* C10: after the unmount cleanup the request in flight is aborted, and
\* however it settles, onResult and onError are not called and result, error
\* and isValidating are not written.
C10_UnmountSilencesInFlight ==
  /\ [](unmounted /\ abortControllerRef # 0 => requests[abortControllerRef].aborted)
  /\ [][ unmounted => UNCHANGED obsVars ]_vars


\* C11: in every state at most one of result and error is populated.
C11_ResultErrorExclusive ==
  ~(result # Null /\ error # Null)

\* C12: result is present only in the resolved phase: while a request is
\* being validated (isValidating is true) result is null.
C12_NoResultWhileValidating ==
  isValidating => result = Null

\* C13: a cancellation is never an error.  A request that settles with the
\* abort indicator leaves error, the onError calls and isValidating as they
\* are.
C13_CancellationIsSilent ==
  [][ (ev'.op = "settle" /\ ev'.kind = "AbortError")
        => UNCHANGED <<error, onErrorCalls, isValidating>> ]_vars

\* C13 witness: an aborted request settled with the AbortError
C13_Witness ==
  /\ ev.op = "settle"
  /\ ev.kind = "AbortError"
  /\ requests[ev.req].aborted
  /\ requests[ev.req].outcome = "AbortError"


\* the request that settles in this step is the current one and its
\* signal is not aborted
CurrentSettles(kinds) ==
  /\ ev'.op = "settle"
  /\ ev'.kind \in kinds
  /\ ev'.req = abortControllerRef
  /\ ~requests[ev'.req].aborted

\* the messages of the failures the API client classifies
ApiMessages ==
  { <<"Rate limit exceeded. The form API allows 60 requests per minute.">>,
    <<"Invalid API key. Check your Truelist form API key.">> }
  \cup { <<"Truelist API error: ", st, StatusText(st)>> : st \in ErrorStatuses }

\* C14: when the current request fails with a non-cancellation failure,
\* error becomes the message of the failure (the client's own message for a
\* classified failure, the fallback otherwise), isValidating becomes false,
\* onError is called exactly once with that message and onResult is not
\* called.
C14_CurrentFailureReported ==
  [][ CurrentSettles(FailureNames)
        => /\ Len(onErrorCalls') = Len(onErrorCalls) + 1
           /\ LET call == onErrorCalls'[Len(onErrorCalls')]
              IN /\ call.req = ev'.req
                 /\ error' = Some(call.arg)
                 /\ IF ev'.kind = "TruelistApiError"
                      THEN call.arg \in ApiMessages
                      ELSE call.arg = FallbackMessage
                 /\ onErrorCalls' = Append(onErrorCalls, call)
           /\ isValidating' = FALSE
           /\ onResultCalls' = onResultCalls ]_vars

\* C14 witness: the current request failed with a classified API failure
\* and its message is shown
C14_Witness ==
  /\ ev.op = "settle"
  /\ ev.kind = "TruelistApiError"
  /\ ev.req = abortControllerRef
  /\ ~requests[ev.req].aborted
  /\ error \in { Some(m) : m \in ApiMessages }
  /\ ~isValidating

\* C15: when the current request resolves, result becomes the value the
\* verifier returned for the posted email, isValidating becomes false and
\* onResult is called exactly once with that value.
C15_CurrentSuccessApplied ==
  [][ CurrentSettles({"resolved"})
        => /\ Len(onResultCalls') = Len(onResultCalls) + 1
           /\ LET call == onResultCalls'[Len(onResultCalls')]
              IN /\ call.req = ev'.req
                 /\ result' = Some(call.arg)
                 /\ \E d \in ApiResponse(requests[ev'.req].email) :
                      call.arg = [state |-> d.state, subState |-> d.sub_state,
                                  email |-> d.email]
                 /\ onResultCalls' = Append(onResultCalls, call)
           /\ isValidating' = FALSE ]_vars

\* C15 witness: the current request resolved and its value is shown
C15_Witness ==
  /\ ev.op = "settle"
  /\ ev.kind = "resolved"
  /\ ev.req = abortControllerRef
  /\ ~requests[ev.req].aborted
  /\ result # Null
  /\ result[1].email = requests[ev.req].email
  /\ ~isValidating

\* C16: with debounceMs = 0, validate with a well-shaped email issues the
\* request inside the call: when it returns the request is issued for that
\* email, isValidating is true and no timer is scheduled.
C16_ZeroDebounceIsSynchronous ==
  [][ (ev'.op = "validate" /\ ~HasNoAt(ev'.email) /\ debounceMs = 0)
        => /\ Len(requests') = Len(requests) + 1
           /\ requests'[Len(requests')].email = ev'.email
           /\ requests'[Len(requests')].outcome = "pending"
           /\ isValidating' = TRUE
           /\ timers' = {}
           /\ debounceTimerRef' = 0 ]_vars

\* C16 witness: validate("a@x") returned with its request issued
C16_Witness ==
  /\ debounceMs = 0
  /\ ev.op = "validate"
  /\ ev.email = <<"a", "@", "x">>
  /\ ev.req = Len(requests)
  /\ isValidating

\* C17: isValidating is true exactly when the most recently issued request
\* is unsettled and not cancelled (while the hook is mounted).
C17_IsValidatingMeansInFlight ==
  ~unmounted =>
    ( isValidating <=>
        ( /\ Len(requests) > 0
          /\ requests[Len(requests)].outcome = "pending"
          /\ ~requests[Len(requests)].aborted ) )


\* the step issues one request for email, unsettled, not aborted and current
IssuesFor(email) ==
  /\ Len(requests') = Len(requests) + 1
  /\ requests'[Len(requests')].email = email
  /\ requests'[Len(requests')].outcome = "pending"
  /\ ~requests'[Len(requests')].aborted
  /\ abortControllerRef' = Len(requests')

\* C18: no failure is fatal.  In every state of the mounted hook, whatever
\* was shown or failed before, validate can be called with a well-shaped
\* email; the call issues the request or leaves its timer pending; a pending
\* timer can fire and firing issues the request; the current request can
\* settle, and when it settles without having been aborted its outcome is
\* surfaced.
C18_UsableAfterAnyOutcome ==
  /\ []( (~unmounted /\ Len(triggers) < MaxTriggers)
           => \A e \in Emails : ~HasNoAt(e) => ENABLED Validate(e) )
  /\ []( \A t \in timers : ENABLED TimerFires(t) )
  /\ []( \A r \in Pending :
           \A out \in FetchOutcomes(requests[r].email, requests[r].aborted) :
             ENABLED Settles(r, out, FALSE) )
  /\ [][ (ev'.op = "validate" /\ ~HasNoAt(ev'.email))
           => \/ IssuesFor(ev'.email)
              \/ /\ requests' = requests
                 /\ timers' = { [id |-> Len(triggers'), email |-> ev'.email] } ]_vars
  /\ [][ ev'.op = "timer"
           => \E t \in timers : t \notin timers' /\ IssuesFor(t.email) ]_vars
  /\ [][ CurrentSettles({"resolved"} \cup FailureNames)
           => IF ev'.kind = "resolved"
                THEN /\ result' # Null
                     /\ Len(onResultCalls') = Len(onResultCalls) + 1
                ELSE /\ error' # Null
                     /\ Len(onErrorCalls') = Len(onErrorCalls) + 1 ]_vars

\* C18 witness: the first request failed and was reported, and the request
\* of a later validate was issued, resolved and is shown
C18_Witness ==
  /\ ev.op = "settle"
  /\ ev.kind = "resolved"
  /\ ev.req = 2
  /\ requests[1].outcome \in FailureNames
  /\ Len(onErrorCalls) = 1
  /\ onErrorCalls[1].req = 1
  /\ result # Null
  /\ Len(onResultCalls) = 1
  /\ onResultCalls[1].req = 2


\* C24: sticky error.  Once error is populated it stays as it is until the
\* next validate call or reset(): no firing of a timer and no settlement of
\* a request changes it, and no request is issued in between.
C24_StickyError ==
  [][ (error # Null /\ ev'.op \notin {"validate", "reset"})
        => (error' = error /\ Len(requests') = Len(requests)) ]_vars

\* C25: the execution step of a trigger aborts the request that was current,
\* makes the new request the current one, sets isValidating to true and
\* error to null; and error is null in every state in which the most
\* recently issued request is in flight (unsettled and not aborted).
C25_RunClearsError ==
  /\ [][ Len(requests') # Len(requests)
           => /\ abortControllerRef # 0 => requests'[abortControllerRef].aborted
              /\ abortControllerRef' = Len(requests')
              /\ isValidating' = TRUE
              /\ error' = Null ]_vars
  /\ []( ( /\ Len(requests) > 0
           /\ requests[Len(requests)].outcome = "pending"
           /\ ~requests[Len(requests)].aborted )
         => error = Null )

\* the issued requests that are unsettled and not aborted
Live == { r \in Pending : ~requests[r].aborted }

\* C26: at most one issued request is both unsettled and not aborted, and
\* it is the current one: issuing a request aborts the one that was current,
\* and reset and the unmount cleanup leave no request live.
C26_OneLiveRequest ==
  /\ [](Cardinality(Live) <= 1)
  /\ [](\A r \in Live : r = abortControllerRef)
  /\ [][ Len(requests') # Len(requests)
           => \A r \in DOMAIN requests : requests'[r].aborted ]_vars
  /\ [][ ev'.op \in {"reset", "unmount"}
           => \A r \in DOMAIN requests' : requests'[r].aborted ]_vars

\* C26 witness: two requests are unsettled; the older one is aborted, the
\* newer one is live and current
C26_Witness ==
  /\ Pending = {1, 2}
  /\ requests[1].aborted
  /\ Live = {2}
  /\ abortControllerRef = 2

\* C27: at most one debounce timer is pending, and it is the one whose
\* handle the hook holds: every validate call clears the timer scheduled
\* before it, and reset and the unmount cleanup leave none.
C27_OneTimerPending ==
  /\ [](Cardinality(timers) <= 1)
  /\ [](\A t \in timers : t.id = debounceTimerRef)
  /\ [][ ev'.op = "validate" => timers' \cap timers = {} ]_vars
  /\ [][ ev'.op \in {"reset", "unmount"} => timers' = {} ]_vars

\* C27 witness: a second validate call inside the debounce window replaced
\* the timer of the first
C27_Witness ==
  /\ debounceMs > 0
  /\ ev.op = "validate"
  /\ ev.kind = "debounced"
  /\ Len(triggers) = 2
  /\ Len(requests) = 0
  /\ timers = { [id |-> 2, email |-> triggers[2]] }

\* C28: no retry and no speculative request.  Every issued request belongs
\* to one validate call with a non-empty email that contains "@" and carries
\* the email of that call; no two requests belong to the same call, so there
\* are at most as many requests as such calls; and only a validate call or
\* the firing of its timer issues a request, never a settlement, a reset or
\* the unmount cleanup.
C28_NoRetry ==
  /\ [](Len(requests) <= Len(triggers))
  /\ [](\A r \in DOMAIN requests :
          /\ requests[r].trig \in DOMAIN triggers
          /\ requests[r].email = triggers[requests[r].trig]
          /\ ~HasNoAt(requests[r].email))
  /\ [](\A r1, r2 \in DOMAIN requests :
          r1 # r2 => requests[r1].trig # requests[r2].trig)
  /\ [][ Len(requests') # Len(requests) => ev'.op \in {"validate", "timer"} ]_vars
  /\ [][ ev'.op = "timer" => (timers # {} /\ timers' = {}) ]_vars

\* C28 witness: the only request failed and was reported, the hook is idle
\* and no second request was issued
C28_Witness ==
  /\ ev.op = "settle"
  /\ ev.kind \in FailureNames
  /\ Len(triggers) = 1
  /\ Len(requests) = 1
  /\ error # Null
  /\ timers = {}
  /\ Pending = {}

\* C29: validate with a well-shaped email and debounceMs > 0 changes nothing
\* observable when it is called: result, error, isValidating, the callbacks
\* and the requests (the current one is not aborted) stay as they are; the
\* call only replaces the pending timer by its own.
C29_DebouncedValidateIsInert ==
  [][ (ev'.op = "validate" /\ ~HasNoAt(ev'.email) /\ debounceMs > 0)
        => /\ UNCHANGED <<result, error, isValidating, requests, abortControllerRef,
                          onResultCalls, onErrorCalls>>
           /\ timers' = { [id |-> Len(triggers'), email |-> ev'.email] } ]_vars

\* C29 witness: validate was called during the debounce delay while the
\* request of the trigger before is in flight, not aborted
C29_Witness ==
  /\ debounceMs > 0
  /\ ev.op = "validate"
  /\ ev.kind = "debounced"
  /\ isValidating
  /\ Live = {1}
  /\ abortControllerRef = 1
  /\ timers # {}

\* the number of calls in log that were made for request r
CallsFor(log, r) == Cardinality({ i \in DOMAIN log : log[i].req = r })

\* C30: for each issued request at most one of onResult and onError is
\* called, at most once; a request whose verifier call resolved never calls
\* onError and never populates error, also when onResult itself throws.
C30_OneCallbackPerRequest ==
  /\ [](\A r \in DOMAIN requests :
          /\ CallsFor(onResultCalls, r) + CallsFor(onErrorCalls, r) <= 1
          /\ requests[r].outcome = "resolved" => CallsFor(onErrorCalls, r) = 0)
  /\ [][ (ev'.op = "settle" /\ ev'.kind = "resolved")
           => (error' = error /\ onErrorCalls' = onErrorCalls) ]_vars


\* ------------------------------------------------- adapters: specification
\* the refinement of the schema runs and its verifyEmail call settles
ZodRefines ==
  /\ adapter.phase = "called"
  /\ adapter.kind = "zod"
  /\ adapter.out \in AdapterFetchOutcomes(adapter.email)
  /\ adapter' = [adapter EXCEPT
                   !.phase = "done",
                   !.ret = truelistEmail(adapter.email, adapter.out, adapter.rejectStates)]
  /\ UNCHANGED <<hookVars, envVars, histVars, client>>

\* the field validator runs and its verifyEmail call settles
FieldValidates ==
  /\ adapter.phase = "called"
  /\ adapter.kind = "rhf"
  /\ adapter.out \in AdapterFetchOutcomes(adapter.email)
  /\ adapter' = [adapter EXCEPT
                   !.phase = "done",
                   !.ret = truelistFieldValidator(adapter.email, adapter.out,
                                                  adapter.rejectStates, DefaultMessage)]
  /\ UNCHANGED <<hookVars, envVars, histVars, client>>

AdapterInit ==
  /\ HookInit
  /\ adapter \in { c \in AdapterCalls : c.out \in AdapterFetchOutcomes(c.email) }
  /\ client = NoClientCall

AdapterNext ==
  \/ ZodRefines
  \/ FieldValidates

AdapterSpec == AdapterInit /\ [][AdapterNext]_vars

\* the verifier call of the adapter failed with the given status (0: network)
AdapterFailedWith(statuses) ==
  /\ adapter.phase = "done"
  /\ \/ adapter.out.kind = "throw" /\ 0 \in statuses
     \/ adapter.out.kind = "response" /\ adapter.out.status \in statuses

\* C19: in the schema adapter an authentication failure of the verifier
\* (status 401) is not swallowed: the refinement does not report the email
\* as valid, it throws.
C19_ZodPropagates401 ==
  (adapter.kind = "zod" /\ AdapterFailedWith({401}))
    => adapter.ret.kind = "throw"

\* C20: fail-open.  When the verifier call fails with a network error or a
\* non-401 HTTP error, the refinement of truelistEmail passes and the field
\* validator returns true; nothing is thrown.
C20_AdaptersFailOpen ==
  AdapterFailedWith({0} \cup (AdapterStatuses \ {401}))
    => (adapter.ret.kind = "return" /\ adapter.ret.ok)

\* C20 witness: the field validator was called with a well-shaped email,
\* the network failed and it returned true
C20_Witness ==
  /\ adapter.phase = "done"
  /\ adapter.kind = "rhf"
  /\ ~HasNoAt(adapter.email)
  /\ adapter.out.name = "TypeError"
  /\ adapter.ret.kind = "return"
  /\ adapter.ret.ok

\* C21: rejection predicate.  For every result of the verifier and every
\* configured reject set, both adapters reject exactly when the state of the
\* result is in the reject set: the field validator returns the configured
\* message then and true otherwise, the refinement of truelistEmail fails
\* then and passes otherwise.
C21_RejectionPredicate ==
  ( /\ adapter.phase = "done"
    /\ adapter.out.status = 200
    /\ adapter.kind = "rhf" => ~HasNoAt(adapter.email) )
    => LET rejected == adapter.out.data.state \in adapter.rejectStates
       IN /\ adapter.ret.kind = "return"
          /\ adapter.ret.ok <=> ~rejected
          /\ (adapter.kind = "rhf" /\ rejected) => adapter.ret.message = DefaultMessage

\* C21 witness: the refinement ran with the reject set {risky, unknown} on
\* a risky result and failed
C21_Witness ==
  /\ adapter.phase = "done"
  /\ adapter.kind = "zod"
  /\ adapter.rejectStates = {"risky", "unknown"}
  /\ adapter.out.status = 200
  /\ adapter.out.data.state = "risky"
  /\ adapter.ret.kind = "return"
  /\ ~adapter.ret.ok

\* C22: with the default options both adapters fail the validation for a
\* result whose state is the invalid-email state of the API (email_invalid)
\* and pass for every other ValidationState.
C22_DefaultRejectsInvalidState ==
  ( /\ adapter.phase = "done"
    /\ adapter.out.status = 200
    /\ adapter.rejectStates = DefaultRejectStates
    /\ adapter.kind = "rhf" => ~HasNoAt(adapter.email) )
    => ( adapter.ret.ok <=> adapter.out.data.state # "email_invalid" )

\* --------------------------------------------------- client: specification
\* both verifyEmail calls settle and the then/catch chain of run reacts
ClientSettles ==
  /\ client.phase = "called"
  /\ client' = [client EXCEPT
                  !.phase = "done",
                  !.settled = [i \in DOMAIN client.outs |-> verifyEmail(client.outs[i])],
                  !.shown = [i \in DOMAIN client.outs |->
                               Surfaced(verifyEmail(client.outs[i]))]]
  /\ UNCHANGED <<hookVars, envVars, histVars, adapter>>

ClientInit ==
  /\ HookInit
  /\ adapter = NoCall
  /\ client \in ClientCalls

ClientNext == ClientSettles

ClientSpec == ClientInit /\ [][ClientNext]_vars

\* the class of a non-OK answer: rate limit, authentication, other
StatusClass(out) ==
  IF out.status = 429 THEN "rate-limit"
  ELSE IF out.status = 401 THEN "authentication"
  ELSE "other"

\* C23: error classification.  A 429, a 401 and any other non-OK answer
\* make verifyEmail reject with a TruelistApiError that carries the status,
\* and answers of two different classes give two different messages; the
\* catch handler shows a TruelistApiError's own message, and the fixed
\* fallback for a failure that is neither a TruelistApiError nor a
\* cancellation.
C23_ErrorClassification ==
  client.phase = "done" =>
    /\ \A i \in DOMAIN client.outs :
         LET out == client.outs[i]
             p == client.settled[i]
         IN /\ (out.kind = "response" /\ out.status # 200)
                 => /\ p.tag = "reject"
                    /\ p.err.name = "TruelistApiError"
                    /\ p.err.status = out.status
                    /\ p.err.message # <<>>
                    /\ client.shown[i] = Some(p.err.message)
            /\ (out.kind = "throw" /\ out.name # "AbortError")
                 => /\ p.tag = "reject"
                    /\ client.shown[i] = Some(<<"Email validation failed. Please try again.">>)
    /\ \A i, j \in DOMAIN client.outs :
         LET oi == client.outs[i]
             oj == client.outs[j]
         IN ( /\ oi.kind = "response" /\ oi.status # 200
              /\ oj.kind = "response" /\ oj.status # 200
              /\ StatusClass(oi) # StatusClass(oj) )
              => client.settled[i].err.message # client.settled[j].err.message

\* C23 witness: one call was answered 401 and the other 429; both failures
\* are classified and their messages, which differ, are shown
C23_Witness ==
  /\ client.phase = "done"
  /\ client.outs[1].status = 401
  /\ client.outs[2].status = 429
  /\ client.settled[1].err.status = 401
  /\ client.settled[2].err.status = 429
  /\ client.shown[1] # Null
  /\ client.shown[2] # Null
  /\ client.shown[1] # client.shown[2]

\* -------------------------------------------------------------- liveness
\* the verifyEmail call of request r settles, in any of the ways it can
SettlesSome(r) ==
  \E out \in FetchOutcomes(requests[r].email, requests[r].aborted) :
    \E throws \in BOOLEAN : Settles(r, out, throws)

\* Every issued request eventually settles: the promise of a fetch call is
\* resolved or rejected.  Nothing is assumed of the component (validate and
\* reset may or may not be called) nor of a timer; the number of validate
\* calls with a well-shaped email is bounded, so triggers stop.
FairSpec ==
  /\ Spec
  /\ \A r \in 1..MaxTriggers : WF_vars(r \in DOMAIN requests /\ SettlesSome(r))

\* C31: isValidating never stays stuck at true.  When every issued request
\* eventually settles, from every state of the mounted hook in which
\* isValidating is true a state is reached in which it is false (or the
\* hook has been unmounted), whatever the interleaving of validate and reset
\* calls, timer firings and settlements.
C31_IsValidatingNotStuck ==
  (isValidating /\ ~unmounted) ~> (~isValidating \/ unmounted)

\* C31 witness: two requests were issued; the older one was aborted and
\* rejected with the AbortError, which leaves isValidating true, and the
\* settlement of the newer one brought isValidating back to false
C31_Witness ==
  /\ ~unmounted
  /\ ev.op = "settle"
  /\ ev.req = 2
  /\ Len(requests) = 2
  /\ requests[1].outcome = "AbortError"
  /\ Pending = {}
  /\ ~isValidating

====
